---------------------------- MODULE Spec2Model ----------------------------
(***************************************************************************)
(* A model of the text-addressing and viewport subsystem of the kilo-ed    *)
(* terminal editor: the line buffer (buffer.rs), the bounded cursor        *)
(* (cursor.rs), the width utilities (text.rs) and the screen (screen.rs).  *)
(*                                                                         *)
(* A character is one of four tokens, one per class of behaviour of the    *)
(* unicode-width crate that the code distinguishes:                        *)
(*   "a"  U+0061, display width Some(1), 1 byte in UTF-8                   *)
(*   "W"  U+26C4, display width Some(2), 3 bytes                           *)
(*   "Z"  U+200C, display width Some(0), 3 bytes                           *)
(*   "T"  U+0009 (tab), display width None, 1 byte                         *)
(* A row is a sequence of characters, the buffer a sequence of rows.       *)
(* Positions, sizes and offsets are u16 values.                            *)
(***************************************************************************)
EXTENDS Integers, Sequences, FiniteSets, TLC

VARIABLES buffer, position, size, offset, state, pc, last,
          channel, refreshes, filename, borrow, terminal

vars == <<buffer, position, size, offset, state, pc, last,
          channel, refreshes, filename, borrow, terminal>>

\* What the main loop adds to the editor: the events in flight between the
\* input system and main, the refreshes since the last read of the input,
\* and whether the buffer has a file name.
loop == <<channel, refreshes, filename>>

\* What lies around the editor: the borrow flag of the RefCell that holds
\* the rows (0 unused, n > 0 shared by n, -1 exclusive), and the mode the
\* terminal is in ("raw" after startup, "restored" after cleanup).
around == <<borrow, terminal>>

---------------------------------------------------------------------------
(* Bounds of the model *)

\* Longest row of an initial file, and longest row an insertion may produce.
MaxLen == 2
\* Most rows of an initial file, and most rows an insertion may produce.
MaxLines == 2
\* Largest screen extent (columns, rows) of the editor's screen.
MaxExtent == 2
\* Largest small coordinate handed to Screen::scroll taken on its own.
MaxCoord == 2
\* Longest string handed to the width utilities taken on their own.
MaxText == 3

---------------------------------------------------------------------------
(* Characters *)

Tab == "T"
Chars == {"a", "W", "Z", Tab}
\* Characters a key press can insert: the tab key is KeyCode::Tab, not Char.
KeyChars == {"a", "W", "Z"}

\* Stands for Option::None of UnicodeWidthChar::width.
NoWidth == -1

\* unicode_width::UnicodeWidthChar::width for the four character classes.
UnicodeWidthChar(ch) ==
    CASE ch = "a" -> 1
      [] ch = "W" -> 2
      [] ch = "Z" -> 0
      [] OTHER -> NoWidth

\* char::len_utf8
len_utf8(ch) == IF ch \in {"W", "Z"} THEN 3 ELSE 1

---------------------------------------------------------------------------
(* u16 arithmetic *)

U16 == 65536
U16Max == 65535

Min(a, b) == IF a < b THEN a ELSE b
Max(a, b) == IF a > b THEN a ELSE b

saturating_sub(a, b) == IF a >= b THEN a - b ELSE 0
saturating_add(a, b) == Min(a + b, U16Max)
wrapping_add(a, b) == (a + b) % U16
wrapping_sub(a, b) == (a - b + U16) % U16
\* u16::overflowing_sub: <<wrapped value, overflowed>>
overflowing_sub(a, b) == <<wrapping_sub(a, b), a < b>>

---------------------------------------------------------------------------
(* cursor.rs: widths as the cursor sees them *)

\* impl ConsoleWidth for char
ConsoleWidth(ch) ==
    IF ch = Tab THEN 1
    ELSE IF UnicodeWidthChar(ch) = NoWidth THEN 1 ELSE UnicodeWidthChar(ch)

\* unicode_width::UnicodeWidthStr::width: the sum of the characters' widths,
\* a character without a width counting 0.
RECURSIVE UnicodeWidthStr(_)
UnicodeWidthStr(s) ==
    IF s = <<>> THEN 0
    ELSE (IF UnicodeWidthChar(Head(s)) = NoWidth THEN 0 ELSE UnicodeWidthChar(Head(s)))
         + UnicodeWidthStr(Tail(s))

RECURSIVE CountTabs(_)
CountTabs(s) ==
    IF s = <<>> THEN 0
    ELSE (IF Head(s) = Tab THEN 1 ELSE 0) + CountTabs(Tail(s))

\* fn column_width(buffer: &str) -> u16
column_width(s) == CountTabs(s) + UnicodeWidthStr(s)

\* The scan of nth_position_width from character i on, with accumulator st;
\* lastw is the last width yielded so far.
RECURSIVE nth_scan(_, _, _, _, _)
nth_scan(s, pos, i, st, lastw) ==
    IF i > Len(s) \/ ~(pos >= st) THEN lastw
    ELSE nth_scan(s, pos, i + 1, st + ConsoleWidth(s[i]), ConsoleWidth(s[i]))

\* fn nth_position_width(buffer: &str, position: u16) -> u16
nth_position_width(s, pos) == nth_scan(s, pos, 1, 0, 1)

---------------------------------------------------------------------------
(* The line storage as the cursor reads it *)

\* Vec::get(y).is_some()
HasLine(buf, y) == y < Len(buf)
\* Vec::get(y).unwrap()
LineAt(buf, y) == buf[y + 1]
\* buf.get(y).map(|row| column_width(&row.buffer)).unwrap_or(0)
LineWidth(buf, y) == IF HasLine(buf, y) THEN column_width(LineAt(buf, y)) ELSE 0

---------------------------------------------------------------------------
(* cursor.rs: the movements of BoundedCursor.  A position is <<x, y>>:     *)
(* x is Position.0 (the column), y is Position.1 (the line).               *)

X(p) == p[1]
Y(p) == p[2]

\* The column left() wraps to on the line above: column_width of it, or 0.
left_wrap_column(buf, y) == LineWidth(buf, y)

\* HorizontalMovement::left
left(buf, p) ==
    LET prev_width == IF HasLine(buf, Y(p))
                      THEN nth_position_width(LineAt(buf, Y(p)), saturating_sub(X(p), 1))
                      ELSE 1
        sub == overflowing_sub(X(p), prev_width)
    IN  IF sub[2] /\ Y(p) >= 1 THEN <<left_wrap_column(buf, Y(p) - 1), Y(p) - 1>>
        ELSE IF sub[2] THEN <<0, Y(p)>>
        ELSE <<sub[1], Y(p)>>

\* right() without the test for the last line: it wraps below the buffer.
right_wraps_past_last_line(buf, p) ==
    LET next_width == IF HasLine(buf, Y(p))
                      THEN nth_position_width(LineAt(buf, Y(p)), X(p))
                      ELSE 1
        value == saturating_add(X(p), next_width)
        width == LineWidth(buf, Y(p))
    IN  IF value > width THEN <<0, wrapping_add(Y(p), 1)>>
        ELSE <<value, Y(p)>>

\* HorizontalMovement::right
right(buf, p) ==
    LET next_width == IF HasLine(buf, Y(p))
                      THEN nth_position_width(LineAt(buf, Y(p)), X(p))
                      ELSE 1
        value == saturating_add(X(p), next_width)
        width == LineWidth(buf, Y(p))
    IN  IF value > width /\ Y(p) >= Len(buf) % U16 THEN <<width, Y(p)>>
        ELSE IF value > width THEN <<0, wrapping_add(Y(p), 1)>>
        ELSE <<value, Y(p)>>

\* The bound up() and down() clamp the column to on line y:
\* tabs + width of the row, or 1 when there is no such line.
vertical_column_bound(buf, y) ==
    IF HasLine(buf, y) THEN CountTabs(LineAt(buf, y)) + UnicodeWidthStr(LineAt(buf, y))
    ELSE 1

\* VerticalMovement::up
up(buf, p) ==
    LET y == saturating_sub(Y(p), 1)
    IN  <<Min(X(p), vertical_column_bound(buf, y)), y>>

\* VerticalMovement::down
down(buf, p) ==
    LET last_line == Len(buf) % U16
        y == Min(saturating_add(Y(p), 1), last_line)
    IN  <<Min(X(p), vertical_column_bound(buf, y)), y>>

\* LineMovement::begin
begin(buf, p) == <<0, Y(p)>>

\* LineMovement::end
end(buf, p) == <<LineWidth(buf, Y(p)), Y(p)>>

---------------------------------------------------------------------------
(* screen.rs: a size is <<cols, rows>> (ScreenSize), an offset is          *)
(* <<col_offset, row_offset>> (Offset).                                    *)

Cols(sz) == sz[1]
Rows(sz) == sz[2]
ColOffset(off) == off[1]
RowOffset(off) == off[2]

\* scroll_axis with the far clamp off by one: the cursor is put one past
\* the last visible row or column.
scroll_axis_far_clamp_off_by_one(c, o, n) ==
    LET o1 == IF c < o THEN c ELSE o
    IN  IF c >= wrapping_add(o1, n) THEN wrapping_sub(c, n) ELSE o1

\* scroll_axis advancing the offset by one row or column per call instead of
\* putting the cursor on the last visible one.
scroll_axis_one_step(c, o, n) ==
    LET o1 == IF c < o THEN c ELSE o
    IN  IF c >= wrapping_add(o1, n) THEN wrapping_add(o1, 1) ELSE o1

\* One axis of Screen::scroll: the two clamps applied in turn to offset o,
\* for cursor coordinate c and visible extent n, in wrapping u16 arithmetic.
scroll_axis(c, o, n) ==
    LET o1 == IF c < o THEN c ELSE o
    IN  IF c >= wrapping_add(o1, n) THEN wrapping_add(wrapping_sub(c, n), 1) ELSE o1

\* Whether one axis of Screen::scroll overflows u16 (a panic in a build with
\* overflow checks, a wrapped value otherwise).
scroll_axis_overflows(c, o, n) ==
    LET o1 == IF c < o THEN c ELSE o
    IN  \/ o1 + n > U16Max
        \/ /\ c >= wrapping_add(o1, n)
           /\ (c < n \/ c - n + 1 > U16Max)

\* Screen::scroll: the offset after scrolling to cursor <<x, y>>
scroll(sz, off, c) ==
    <<scroll_axis(X(c), ColOffset(off), Cols(sz)),
      scroll_axis(Y(c), RowOffset(off), Rows(sz))>>

scroll_overflows(sz, off, c) ==
    \/ scroll_axis_overflows(Y(c), RowOffset(off), Rows(sz))
    \/ scroll_axis_overflows(X(c), ColOffset(off), Cols(sz))

---------------------------------------------------------------------------
(* cursor.rs: PageMovement, which reads the screen *)

\* PageMovement::top
top(buf, sz, off, p) == <<X(p), saturating_sub(RowOffset(off), Rows(sz))>>

\* PageMovement::bottom
bottom(buf, sz, off, p) ==
    LET lines == Len(buf) % U16
        y == Min(lines, wrapping_sub(wrapping_add(RowOffset(off), Rows(sz)), 1))
    IN  <<X(p), Min(saturating_add(y, Rows(sz)), lines)>>

\* Whether row_offset + rows - 1 in bottom() overflows u16.
bottom_overflows(sz, off) ==
    RowOffset(off) + Rows(sz) > U16Max \/ RowOffset(off) + Rows(sz) < 1

---------------------------------------------------------------------------
(* lib.rs: the rendered cursor and the refresh of the screen *)

TAB_STOP == 8

\* Row::render_cursor: the fold over the first n characters of the row
RECURSIVE render_fold(_, _, _, _)
render_fold(s, n, i, rx) ==
    IF i > Len(s) \/ i > n THEN rx
    ELSE render_fold(s, n, i + 1,
                     (IF s[i] = Tab THEN rx + (TAB_STOP - 1) - (rx % TAB_STOP) ELSE rx) + 1)

render_cursor(s, p) == <<render_fold(s, X(p), 1, 0) % U16, Y(p)>>

\* BoundedCursor::render
render(buf, p) ==
    IF HasLine(buf, Y(p)) THEN render_cursor(LineAt(buf, Y(p)), p) ELSE <<0, Y(p)>>

\* Editor::refresh: the offset after the scroll to the rendered cursor
refresh(buf, sz, off, p) == scroll(sz, off, render(buf, p))

\* Whether the u16 arithmetic of Editor::refresh overflows: in the scroll, or
\* in the cursor's screen position (rendered x - col_offset, y - row_offset).
refresh_overflows(buf, sz, off, p) ==
    \/ scroll_overflows(sz, off, render(buf, p))
    \/ X(render(buf, p)) < ColOffset(refresh(buf, sz, off, p))
    \/ Y(p) < RowOffset(refresh(buf, sz, off, p))

---------------------------------------------------------------------------
(* text.rs: widths and byte offsets as the buffer sees them *)

\* impl ConsoleWidthChar for char: render_width
render_width(ch) ==
    IF ch = Tab THEN 1
    ELSE IF UnicodeWidthChar(ch) = NoWidth THEN 0 ELSE UnicodeWidthChar(ch)

\* impl ConsoleWidthStr for str: column_width (a character without a width
\* counts 1, a zero-width character 0)
RECURSIVE ConsoleWidthStr(_)
ConsoleWidthStr(s) ==
    IF s = <<>> THEN 0
    ELSE (IF UnicodeWidthChar(Head(s)) = NoWidth THEN 1 ELSE UnicodeWidthChar(Head(s)))
         + ConsoleWidthStr(Tail(s))

\* The scan of text::nth_position_width from character i on (the widths are
\* render_width's).
RECURSIVE text_nth_scan(_, _, _, _, _)
text_nth_scan(s, pos, i, st, lastw) ==
    IF i > Len(s) \/ ~(pos >= st) THEN lastw
    ELSE text_nth_scan(s, pos, i + 1, st + render_width(s[i]), render_width(s[i]))

\* pub fn nth_position_width(buffer: &str, position: usize) -> usize, of text.rs
text_nth_position_width(s, pos) == text_nth_scan(s, pos, 1, 0, 1)

\* buffer_width counting a zero-width character as 0 columns.
RECURSIVE buffer_width_zero_width_uncounted(_)
buffer_width_zero_width_uncounted(s) ==
    IF s = <<>> THEN 0
    ELSE (IF UnicodeWidthChar(Head(s)) = NoWidth THEN 1 ELSE UnicodeWidthChar(Head(s)))
         + buffer_width_zero_width_uncounted(Tail(s))

\* pub fn buffer_width(buffer: &str) -> usize
RECURSIVE buffer_width(_)
buffer_width(s) ==
    IF s = <<>> THEN 0
    ELSE (IF UnicodeWidthChar(Head(s)) = NoWidth THEN 1
          ELSE IF UnicodeWidthChar(Head(s)) > 0 THEN UnicodeWidthChar(Head(s)) ELSE 1)
         + buffer_width(Tail(s))

\* The scan of char_index taking a character whose start column equals the
\* cursor column as well (cursor >= *st).
RECURSIVE char_index_scan_inclusive(_, _, _, _)
char_index_scan_inclusive(s, cursor, i, st) ==
    IF i > Len(s) \/ ~(cursor >= st) THEN 0
    ELSE len_utf8(s[i])
         + char_index_scan_inclusive(s, cursor, i + 1,
                           st + (IF render_width(s[i]) = 0 THEN 1 ELSE render_width(s[i])))

\* The scan of char_index summing the columns of the characters it yields
\* instead of their bytes.
RECURSIVE char_index_scan_sums_columns(_, _, _, _)
char_index_scan_sums_columns(s, cursor, i, st) ==
    IF i > Len(s) \/ ~(cursor > st) THEN 0
    ELSE (IF render_width(s[i]) = 0 THEN 1 ELSE render_width(s[i]))
         + char_index_scan_sums_columns(s, cursor, i + 1,
                           st + (IF render_width(s[i]) = 0 THEN 1 ELSE render_width(s[i])))

\* The scan of char_index from character i on, with accumulator st: the sum
\* of the byte lengths of the characters it yields.
RECURSIVE char_index_scan(_, _, _, _)
char_index_scan(s, cursor, i, st) ==
    IF i > Len(s) \/ ~(cursor > st) THEN 0
    ELSE len_utf8(s[i])
         + char_index_scan(s, cursor, i + 1,
                           st + (IF render_width(s[i]) = 0 THEN 1 ELSE render_width(s[i])))

\* pub fn char_index(cursor: usize, buffer: &str) -> usize
char_index(cursor, s) == char_index_scan(s, cursor, 1, 0)

\* str::len: the length in bytes
RECURSIVE byte_len(_)
byte_len(s) == IF s = <<>> THEN 0 ELSE len_utf8(Head(s)) + byte_len(Tail(s))

\* str::is_char_boundary
is_char_boundary(s, index) ==
    \E k \in 0..Len(s) : byte_len(SubSeq(s, 1, k)) = index

\* The number of characters before byte offset index (a character boundary).
chars_before(s, index) ==
    CHOOSE k \in 0..Len(s) : byte_len(SubSeq(s, 1, k)) = index

---------------------------------------------------------------------------
(* buffer.rs: the edits.  Each yields a record; panic tells that the code  *)
(* panics on the way (an index out of range, a usize underflow, a byte     *)
(* offset that String::insert or String::remove rejects).                  *)

\* String::insert(index, ch), through Row::insert
string_insert(s, index, ch) ==
    LET k == chars_before(s, index)
    IN  SubSeq(s, 1, k) \o <<ch>> \o SubSeq(s, k + 1, Len(s))

\* String::remove(index) panics unless index is the start of a character.
string_remove_panics(s, index) ==
    ~is_char_boundary(s, index) \/ index >= byte_len(s)

\* String::remove(index)
string_remove(s, index) ==
    LET k == chars_before(s, index)
    IN  SubSeq(s, 1, k) \o SubSeq(s, k + 2, Len(s))

\* insert_char appending its blank row one line early: on the last existing
\* line as well as on the line past it.
insert_char_appends_early(buf, ch, p) ==
    LET grown == IF Y(p) + 1 >= Len(buf) THEN Append(buf, <<>>) ELSE buf
    IN  IF ~(Y(p) < Len(grown))
        THEN [panic |-> TRUE, buffer |-> buf, state |-> "Default"]
        ELSE LET row == grown[Y(p) + 1]
                 index == char_index(X(p), row)
             IN  IF ~is_char_boundary(row, index)
                 THEN [panic |-> TRUE, buffer |-> buf, state |-> "Default"]
                 ELSE [panic |-> FALSE,
                       buffer |-> [grown EXCEPT ![Y(p) + 1] = string_insert(row, index, ch)],
                       state |-> "Modified"]

\* Buffer::insert_char
insert_char(buf, ch, p) ==
    LET grown == IF Y(p) = Len(buf) THEN Append(buf, <<>>) ELSE buf
    IN  IF ~(Y(p) < Len(grown))
        THEN [panic |-> TRUE, buffer |-> buf, state |-> "Default"]
        ELSE LET row == grown[Y(p) + 1]
                 index == char_index(X(p), row)
             IN  IF ~is_char_boundary(row, index)
                 THEN [panic |-> TRUE, buffer |-> buf, state |-> "Default"]
                 ELSE [panic |-> FALSE,
                       buffer |-> [grown EXCEPT ![Y(p) + 1] = string_insert(row, index, ch)],
                       state |-> "Modified"]

\* cursor.left() applied n times (the loop that ends delete_char)
RECURSIVE left_times(_, _, _)
left_times(buf, p, n) == IF n = 0 THEN p ELSE left_times(buf, left(buf, p), n - 1)

\* delete_char joining the line to the one above when the cursor is at
\* column 0 of a line below the first, as a backspace at a line start would.
delete_char_joins_lines(buf, p, old) ==
    IF Y(p) = Len(buf) % U16
    THEN [panic |-> FALSE, buffer |-> buf, position |-> p, state |-> old]
    ELSE IF X(p) > 0
    THEN IF ~(Y(p) < Len(buf))
         THEN [panic |-> TRUE, buffer |-> buf, position |-> p, state |-> old]
         ELSE LET line == buf[Y(p) + 1]
                  index == char_index(X(p), line)
                  k == chars_before(line, index)
                  width_of_prev_char == IF k = 0 THEN 1 ELSE render_width(line[k])
              IN  IF X(p) < width_of_prev_char
                  THEN [panic |-> TRUE, buffer |-> buf, position |-> p, state |-> old]
                  ELSE LET index2 == char_index(X(p) - width_of_prev_char, line)
                       IN  IF string_remove_panics(line, index2)
                           THEN [panic |-> TRUE, buffer |-> buf, position |-> p,
                                 state |-> old]
                           ELSE LET after == [buf EXCEPT ![Y(p) + 1] =
                                                  string_remove(line, index2)]
                                IN  [panic |-> FALSE, buffer |-> after,
                                     position |-> left_times(after, p, width_of_prev_char),
                                     state |-> "Modified"]
    ELSE IF Y(p) > 0
    THEN [panic |-> FALSE,
          buffer |-> SubSeq(buf, 1, Y(p) - 1) \o <<buf[Y(p)] \o buf[Y(p) + 1]>>
                         \o SubSeq(buf, Y(p) + 2, Len(buf)),
          position |-> <<LineWidth(buf, Y(p) - 1), Y(p) - 1>>,
          state |-> "Modified"]
    ELSE [panic |-> FALSE, buffer |-> buf, position |-> p, state |-> old]

\* delete_char marking the buffer Modified whenever it is called on a line,
\* at column 0 too, where it removes nothing.
delete_char_marks_no_op(buf, p, old) ==
    IF Y(p) = Len(buf) % U16
    THEN [panic |-> FALSE, buffer |-> buf, position |-> p, state |-> old]
    ELSE IF X(p) > 0
    THEN IF ~(Y(p) < Len(buf))
         THEN [panic |-> TRUE, buffer |-> buf, position |-> p, state |-> old]
         ELSE LET line == buf[Y(p) + 1]
                  index == char_index(X(p), line)
                  k == chars_before(line, index)
                  width_of_prev_char == IF k = 0 THEN 1 ELSE render_width(line[k])
              IN  IF X(p) < width_of_prev_char
                  THEN [panic |-> TRUE, buffer |-> buf, position |-> p, state |-> old]
                  ELSE LET index2 == char_index(X(p) - width_of_prev_char, line)
                       IN  IF string_remove_panics(line, index2)
                           THEN [panic |-> TRUE, buffer |-> buf, position |-> p,
                                 state |-> old]
                           ELSE LET after == [buf EXCEPT ![Y(p) + 1] =
                                                  string_remove(line, index2)]
                                IN  [panic |-> FALSE, buffer |-> after,
                                     position |-> left_times(after, p, width_of_prev_char),
                                     state |-> "Modified"]
    ELSE [panic |-> FALSE, buffer |-> buf, position |-> p, state |-> "Modified"]

\* Buffer::delete_char; old is the state before (BufferState)
delete_char(buf, p, old) ==
    IF Y(p) = Len(buf) % U16
    THEN [panic |-> FALSE, buffer |-> buf, position |-> p, state |-> old]
    ELSE IF X(p) > 0
    THEN IF ~(Y(p) < Len(buf))
         THEN [panic |-> TRUE, buffer |-> buf, position |-> p, state |-> old]
         ELSE LET line == buf[Y(p) + 1]
                  index == char_index(X(p), line)
                  k == chars_before(line, index)
                  width_of_prev_char == IF k = 0 THEN 1 ELSE render_width(line[k])
              IN  IF X(p) < width_of_prev_char
                  THEN \* usize underflow: a panic with overflow checks; without
                       \* them the wrapped column maps to the end of the line,
                       \* where String::remove panics.
                       [panic |-> TRUE, buffer |-> buf, position |-> p, state |-> old]
                  ELSE LET index2 == char_index(X(p) - width_of_prev_char, line)
                       IN  IF string_remove_panics(line, index2)
                           THEN [panic |-> TRUE, buffer |-> buf, position |-> p,
                                 state |-> old]
                           ELSE LET after == [buf EXCEPT ![Y(p) + 1] =
                                                  string_remove(line, index2)]
                                IN  [panic |-> FALSE, buffer |-> after,
                                     position |-> left_times(after, p, width_of_prev_char),
                                     state |-> "Modified"]
    ELSE [panic |-> FALSE, buffer |-> buf, position |-> p, state |-> old]

---------------------------------------------------------------------------
(* The RefCell around the rows (RowBufferRef): what each operation asks of *)
(* it, in order. "borrow" and "borrow_mut" are the requests, "drop" and    *)
(* "drop_mut" the ends of the guards' lifetimes.                           *)

RECURSIVE run_borrows(_, _)
\* The flag after the requests of calls are made in order on flag b, and
\* whether one of them was refused (BorrowError / BorrowMutError: a panic).
\* RefCell::borrow is refused while the cell is exclusively borrowed,
\* RefCell::borrow_mut while it is borrowed at all.
run_borrows(calls, b) ==
    IF calls = <<>>
    THEN [refused |-> FALSE, flag |-> b]
    ELSE LET c == Head(calls)
         IN  IF c = "borrow"
             THEN IF b < 0
                  THEN [refused |-> TRUE, flag |-> b]
                  ELSE run_borrows(Tail(calls), b + 1)
             ELSE IF c = "borrow_mut"
             THEN IF b # 0
                  THEN [refused |-> TRUE, flag |-> b]
                  ELSE run_borrows(Tail(calls), -1)
             ELSE IF c = "drop"
             THEN run_borrows(Tail(calls), b - 1)
             ELSE run_borrows(Tail(calls), 0)

\* The cursor movements: the guard `buf` of left, right, up and end lives
\* for the whole body; down and bottom first borrow for the line count.
\* begin touches no row, top only the screen.
cursor_borrows(op) ==
    CASE op = "Left" -> <<"borrow", "drop">>
      [] op = "Right" -> <<"borrow", "drop">>
      [] op = "Up" -> <<"borrow", "drop">>
      [] op = "Down" -> <<"borrow", "drop", "borrow", "drop">>
      [] op = "Begin" -> <<>>
      [] op = "End" -> <<"borrow", "drop">>
      [] op = "Top" -> <<>>
      [] op = "Bottom" -> <<"borrow", "drop">>

\* Buffer::insert_char: one exclusive borrow for the whole body
insert_char_borrows == <<"borrow_mut", "drop_mut">>

\* The number of cursor.left() calls that end Buffer::delete_char
move_cursor(buf, p) ==
    IF Y(p) = Len(buf) % U16 \/ X(p) = 0 \/ delete_char(buf, p, "Default").panic
    THEN 0
    ELSE LET line == buf[Y(p) + 1]
             k == chars_before(line, char_index(X(p), line))
         IN  IF k = 0 THEN 1 ELSE render_width(line[k])

RECURSIVE repeat_calls(_, _)
repeat_calls(calls, n) == IF n = 0 THEN <<>> ELSE calls \o repeat_calls(calls, n - 1)

\* delete_char keeping its exclusive borrow until it returns, the calls of
\* cursor.left() included.
delete_char_borrows_held(buf, p) ==
    <<"borrow_mut">> \o repeat_calls(cursor_borrows("Left"), move_cursor(buf, p))
                    \o <<"drop_mut">>

\* Buffer::delete_char: the exclusive borrow lives in the block that
\* computes move_cursor; the calls of cursor.left() come after it.
delete_char_borrows(buf, p) ==
    <<"borrow_mut", "drop_mut">> \o repeat_calls(cursor_borrows("Left"), move_cursor(buf, p))

---------------------------------------------------------------------------
(* The editor: one event of the main loop (main.rs) at a time, each        *)
(* followed by the refresh that starts the next turn of the loop.          *)

\* Row texts and buffers within the bounds
RowsUpTo(n) == UNION {[1..k -> Chars] : k \in 0..n}
Files == UNION {[1..n -> RowsUpTo(MaxLen)] : n \in 0..MaxLines}

\* Visible extents of the editor's screen
Extents == 1..MaxExtent

\* What the last step was: the event, the character it carried, and the
\* position, buffer, offset and buffer state it started from.
Was(op, ch) ==
    [op |-> op, ch |-> ch, position |-> position, buffer |-> buffer,
     offset |-> offset, state |-> state]

Init ==
    /\ buffer \in Files
    /\ position = <<0, 0>>
    /\ size \in Extents \X Extents
    /\ offset = refresh(buffer, size, <<0, 0>>, position)
    /\ state = "Default"
    /\ pc = "input"
    /\ last = [op |-> "Init", ch |-> "", position |-> <<0, 0>>, buffer |-> buffer,
               offset |-> <<0, 0>>, state |-> "Default"]
    /\ channel = <<>>
    /\ refreshes = 0
    /\ borrow = 0
    /\ terminal = "raw"
    /\ filename = "file"

\* A cursor event: the cursor moves to p, then the screen is refreshed.
Moved(op, p) ==
    /\ pc = "input"
    /\ LET b == run_borrows(cursor_borrows(op), borrow)
       IN  IF b.refused
           THEN /\ pc' = "already borrowed"
                /\ borrow' = b.flag
                /\ UNCHANGED <<position, offset>>
           ELSE /\ position' = p
                /\ offset' = refresh(buffer, size, offset, p)
                /\ borrow' = b.flag
                /\ pc' = pc
    /\ last' = Was(op, "")
    /\ UNCHANGED <<buffer, size, state, terminal>>
    /\ UNCHANGED loop

MoveLeft == Moved("Left", left(buffer, position))
MoveRight == Moved("Right", right(buffer, position))
MoveUp == Moved("Up", up(buffer, position))
MoveDown == Moved("Down", down(buffer, position))
MoveBegin == Moved("Begin", begin(buffer, position))
MoveEnd == Moved("End", end(buffer, position))
MoveTop == Moved("Top", top(buffer, size, offset, position))
MoveBottom == Moved("Bottom", bottom(buffer, size, offset, position))

\* After Buffer::insert_char the cursor steps over the inserted character.
advance_after_insert(buf, p) == right(buf, p)

\* InputEvent::InsertChar(ch)
InsertChar ==
    \E ch \in KeyChars :
        /\ pc = "input"
        /\ IF HasLine(buffer, Y(position))
           THEN Len(LineAt(buffer, Y(position))) < MaxLen
           ELSE Len(buffer) < MaxLines
        /\ LET r == insert_char(buffer, ch, position)
               b == run_borrows(insert_char_borrows \o cursor_borrows("Right"), borrow)
           IN  IF b.refused
               THEN /\ pc' = "already borrowed"
                    /\ borrow' = b.flag
                    /\ UNCHANGED <<buffer, position, offset, state>>
               ELSE IF r.panic
               THEN /\ pc' = "panicked"
                    /\ UNCHANGED <<buffer, position, offset, state, borrow>>
               ELSE /\ buffer' = r.buffer
                    /\ state' = r.state
                    /\ position' = advance_after_insert(r.buffer, position)
                    /\ offset' = refresh(r.buffer, size, offset, position')
                    /\ borrow' = b.flag
                    /\ pc' = "input"
        /\ last' = Was("Insert", ch)
        /\ UNCHANGED <<size, terminal>>
        /\ UNCHANGED loop

\* InputEvent::DeletePreviousChar
DeletePreviousChar ==
    /\ pc = "input"
    /\ LET r == delete_char(buffer, position, state)
           b == run_borrows(delete_char_borrows(buffer, position), borrow)
       IN  IF b.refused
           THEN /\ pc' = "already borrowed"
                /\ borrow' = b.flag
                /\ UNCHANGED <<buffer, position, offset, state>>
           ELSE IF r.panic
           THEN /\ pc' = "panicked"
                /\ UNCHANGED <<buffer, position, offset, state, borrow>>
           ELSE /\ buffer' = r.buffer
                /\ state' = r.state
                /\ position' = r.position
                /\ offset' = refresh(r.buffer, size, offset, r.position)
                /\ borrow' = b.flag
                /\ pc' = "input"
    /\ last' = Was("Delete", "")
    /\ UNCHANGED <<size, terminal>>
    /\ UNCHANGED loop

Next ==
    \/ MoveLeft
    \/ MoveRight
    \/ MoveUp
    \/ MoveDown
    \/ MoveBegin
    \/ MoveEnd
    \/ MoveTop
    \/ MoveBottom
    \/ InsertChar
    \/ DeletePreviousChar

Spec == Init /\ [][Next]_vars

\* The editor under cursor events alone: the buffer stays as it was opened.
MoveNext ==
    \/ MoveLeft
    \/ MoveRight
    \/ MoveUp
    \/ MoveDown
    \/ MoveBegin
    \/ MoveEnd
    \/ MoveTop
    \/ MoveBottom

MoveSpec == Init /\ [][MoveNext]_vars

---------------------------------------------------------------------------
(* Screen::scroll on its own: any screen size, any previous offset and any *)
(* cursor (scroll takes any impl Cursor), scrolled twice in a row.  The    *)
(* coordinates are the small ones and the two largest u16 values.          *)

ScrollExtents == 0..MaxCoord
ScrollCoords == (0..MaxCoord) \cup {U16Max - 1, U16Max}

ScrollInit ==
    /\ buffer = <<>>
    /\ position \in ScrollCoords \X ScrollCoords
    /\ size \in ScrollExtents \X ScrollExtents
    /\ offset \in ScrollCoords \X ScrollCoords
    /\ state = "Default"
    /\ pc = "scroll0"
    /\ last = [op |-> "Init", ch |-> "", position |-> position, buffer |-> <<>>,
               offset |-> offset, state |-> "Default"]
    /\ channel = <<>>
    /\ refreshes = 0
    /\ borrow = 0
    /\ terminal = "raw"
    /\ filename = "none"

ScrollStage == [scroll0 |-> "scroll1", scroll1 |-> "scroll2"]

\* scroll returns: always without overflow, and with the wrapped values in a
\* build without overflow checks.
ScrollReturns ==
    /\ pc \in DOMAIN ScrollStage
    /\ offset' = scroll(size, offset, position)
    /\ pc' = ScrollStage[pc]
    /\ last' = Was("Scroll", "")
    /\ UNCHANGED <<buffer, position, size, state>>
    /\ UNCHANGED <<loop, around>>

\* scroll panics: on overflow, in a build with overflow checks.
ScrollPanics ==
    /\ pc \in DOMAIN ScrollStage
    /\ scroll_overflows(size, offset, position)
    /\ pc' = "panicked"
    /\ last' = Was("Scroll", "")
    /\ UNCHANGED <<buffer, position, size, offset, state>>
    /\ UNCHANGED <<loop, around>>

ScrollNext == ScrollReturns \/ ScrollPanics

ScrollSpec == ScrollInit /\ [][ScrollNext]_vars

---------------------------------------------------------------------------
(* Claims about Screen::scroll *)

InWindow(c, o, n) == o <= c /\ c < o + n

C3_ScrollIdempotent ==
    pc = "scroll2" => offset = last.offset

\* A second scroll has run after a first one that moved the offset.
C3_Witness ==
    /\ pc = "scroll2"
    /\ Rows(size) > 0
    /\ Y(position) >= 2
    /\ offset = <<X(position), Y(position) - Rows(size) + 1>>
    /\ offset = last.offset

\* C4: with zero visible extent (rows = 0 and cols = 0) scroll is a no-op:
\* it leaves both offsets as they were, for every cursor.
C4_ZeroExtentScrollNoOp ==
    (pc = "scroll1" /\ Cols(size) = 0 /\ Rows(size) = 0) => offset = last.offset

---------------------------------------------------------------------------
(* Claims about the cursor.  "Rendered width of a line" is the width the   *)
(* cursor itself uses for the end of a line (column_width, 0 for a line    *)
(* that does not exist).                                                   *)

\* The position the last step started from, and the line it was on.
Before == last.position
LineBefore == LineAt(buffer, Y(Before))

\* The column at which the k-th character of row s starts.
StartColumn(s, k) == column_width(SubSeq(s, 1, k - 1))
\* The k-th character of row s occupies column c.
Occupies(s, k, c) ==
    StartColumn(s, k) <= c /\ c < StartColumn(s, k) + ConsoleWidth(s[k])

\* C1: after any sequence of movements and edits from (0,0) the position
\* satisfies 0 <= line <= lineCount() and 0 <= column <= rendered width of
\* that line, the virtual line at index lineCount() having width 0.
C1_PositionInBounds ==
    /\ 0 <= Y(position) /\ Y(position) <= Len(buffer)
    /\ 0 <= X(position) /\ X(position) <= LineWidth(buffer, Y(position))

\* C5: Left with column = 0 moves to the end of the line above when
\* line > 0, whatever the two lines hold, and stays at (0,0) when line = 0.
C5_LeftAtColumnZero ==
    (last.op = "Left" /\ X(Before) = 0)
        => IF Y(Before) > 0
           THEN position = <<LineWidth(buffer, Y(Before) - 1), Y(Before) - 1>>
           ELSE position = <<0, 0>>

\* C6: Right with column = rendered width of the current line moves to
\* (0, line+1) when line < lineCount(), whatever the line holds, and leaves
\* the position unchanged when line = lineCount().
C6_RightAtLineEnd ==
    (last.op = "Right" /\ X(Before) = LineWidth(buffer, Y(Before)))
        => IF Y(Before) < Len(buffer)
           THEN position = <<0, Y(Before) + 1>>
           ELSE position = Before

C8_LeftCrossesOneCharacter ==
    (last.op = "Left" /\ X(Before) > 0 /\ HasLine(buffer, Y(Before)))
        => \E k \in 1..Len(LineBefore) :
              /\ Occupies(LineBefore, k, X(Before) - 1)
              /\ position = <<X(Before) - ConsoleWidth(LineBefore[k]), Y(Before)>>
              /\ X(position) = StartColumn(LineBefore, k)

\* C9: in every reachable state with column < rendered width of the line,
\* Right keeps the line and increases column by the width of the character
\* occupying that column, never past the line's width.
C9_RightCrossesOneCharacter ==
    (last.op = "Right" /\ X(Before) < LineWidth(buffer, Y(Before)))
        => \E k \in 1..Len(LineBefore) :
              /\ Occupies(LineBefore, k, X(Before))
              /\ position = <<X(Before) + ConsoleWidth(LineBefore[k]), Y(Before)>>
              /\ X(position) <= LineWidth(buffer, Y(Before))

\* C10: Up and Down change line by -1 / +1 clamped to [0, lineCount()] and
\* then set column to min(old column, rendered width of the new line), the
\* virtual line (and any missing line) having width 0.
C10_VerticalClamp ==
    /\ last.op = "Up"
         => LET y == Max(Y(Before) - 1, 0)
            IN  position = <<Min(X(Before), LineWidth(buffer, y)), y>>
    /\ last.op = "Down"
         => LET y == Min(Y(Before) + 1, Len(buffer))
            IN  position = <<Min(X(Before), LineWidth(buffer, y)), y>>

\* C11: PageUp (top) and PageDown (bottom) move the line from its current
\* value by the visible row count, up or down, clamped to [0, lineCount()],
\* and then set column to min(column, rendered width of the new line).
C11_PageMovement ==
    /\ last.op = "Top"
         => LET y == Max(Y(Before) - Rows(size), 0)
            IN  position = <<Min(X(Before), LineWidth(buffer, y)), y>>
    /\ last.op = "Bottom"
         => LET y == Min(Y(Before) + Rows(size), Len(buffer))
            IN  position = <<Min(X(Before), LineWidth(buffer, y)), y>>

---------------------------------------------------------------------------
(* Claims about the edits *)

\* The buffer the last step started from, and the line the cursor was on.
BufferBefore == last.buffer
RowBefore == LineAt(BufferBefore, Y(Before))

\* C12: InsertCharacter(ch) with the cursor at the end of an existing line
\* (column = rendered width of the line, as End sets it) appends ch as the
\* last character of that line, leaves every other line unchanged, and
\* leaves the cursor on the same line with column increased by ch's width.
C12_InsertAtEndOfLine ==
    (/\ last.op = "Insert"
     /\ HasLine(BufferBefore, Y(Before))
     /\ X(Before) = LineWidth(BufferBefore, Y(Before)))
        => /\ buffer = [BufferBefore EXCEPT ![Y(Before) + 1] = Append(@, last.ch)]
           /\ position = <<X(Before) + ConsoleWidth(last.ch), Y(Before)>>

\* C13: DeleteBackward with the cursor on an existing line at a
\* character-start column > 0 removes exactly the one character that ends at
\* the cursor, leaves all other characters and lines unchanged, and moves
\* the cursor left on the same line by the removed character's rendered
\* width, to the column where the removed character started.
C13_DeleteRemovesPrecedingCharacter ==
    (/\ last.op = "Delete"
     /\ HasLine(BufferBefore, Y(Before))
     /\ X(Before) > 0
     /\ \E k \in 1..Len(RowBefore) : StartColumn(RowBefore, k + 1) = X(Before))
        => \E k \in 1..Len(RowBefore) :
              /\ StartColumn(RowBefore, k + 1) = X(Before)
              /\ buffer = [BufferBefore EXCEPT ![Y(Before) + 1] =
                               SubSeq(@, 1, k - 1) \o SubSeq(@, k + 1, Len(@))]
              /\ position = <<X(Before) - ConsoleWidth(RowBefore[k]), Y(Before)>>
              /\ X(position) = StartColumn(RowBefore, k)

\* C14: DeleteBackward with the cursor at column 0 (on any line) or on the
\* virtual line at index lineCount() is a no-op: the text of every line, the
\* line count, the cursor position and the modified state are unchanged.
C14_DeleteAtLineStartNoOp ==
    (/\ last.op = "Delete"
     /\ (X(Before) = 0 \/ Y(Before) = Len(BufferBefore)))
        => /\ pc = "input"
           /\ buffer = BufferBefore
           /\ position = Before
           /\ state = last.state

\* A delete has been applied at column 0 of a line below the first, in a
\* buffer that an earlier edit had modified.
C14_Witness ==
    /\ last.op = "Delete"
    /\ pc = "input"
    /\ X(Before) = 0
    /\ Y(Before) > 0
    /\ HasLine(BufferBefore, Y(Before))
    /\ RowBefore # <<>>
    /\ last.state = "Modified"
    /\ buffer = BufferBefore

---------------------------------------------------------------------------
(* The rendered text of a row: buffer.rs (Row::render_buffer) and lib.rs   *)
(* (Row::update).  A rendered text is a sequence of characters in which    *)
(* " " is a space.                                                         *)

Space == " "

\* The first n characters of SPACES, or " ".repeat(n): n spaces.
SPACES(n) == [i \in 1..n |-> Space]

\* fn expand_tabs(buffer: &str, tab_stop: usize) -> String
RECURSIVE expand_tabs(_, _)
expand_tabs(s, tab_stop) ==
    IF s = <<>> THEN <<>>
    ELSE (IF Head(s) = Tab THEN SPACES(tab_stop) ELSE <<Head(s)>>)
         \o expand_tabs(Tail(s), tab_stop)

\* Row::render_buffer: the text up to the first tab, then the rest expanded
render_buffer(s) ==
    IF \E i \in 1..Len(s) : s[i] = Tab
    THEN LET i == CHOOSE j \in 1..Len(s) :
                      s[j] = Tab /\ \A h \in 1..(j - 1) : s[h] # Tab
         IN  SubSeq(s, 1, i - 1) \o expand_tabs(SubSeq(s, i, Len(s)), TAB_STOP)
    ELSE s

\* Row::update: the render field of the row
RECURSIVE update(_)
update(s) ==
    IF s = <<>> THEN <<>>
    ELSE (IF Head(s) = Tab THEN [i \in 1..TAB_STOP |-> Space] ELSE <<Head(s)>>)
         \o update(Tail(s))

---------------------------------------------------------------------------
(* The width utilities and the rendered text on their own: any string up   *)
(* to MaxText characters and any column, one function applied to them.     *)
(* The string is the only row of the buffer, the column is the cursor's.   *)

Texts == RowsUpTo(MaxText)
TextColumns == 0..(2 * MaxText + 1)

\* The string and the column the function is applied to.
Text == buffer[1]
Column == X(position)

TextInit ==
    /\ buffer \in {<<s>> : s \in Texts}
    /\ position \in {<<c, 0>> : c \in TextColumns}
    /\ size = <<1, 1>>
    /\ offset = <<0, 0>>
    /\ state = "Default"
    /\ pc = "call"
    /\ last = [op |-> "Init", ch |-> "", result |-> 0]
    /\ channel = <<>>
    /\ refreshes = 0
    /\ borrow = 0
    /\ terminal = "raw"
    /\ filename = "none"

\* The function op, applied to character ch where it takes one, returns r.
Returns(op, ch, r) ==
    /\ pc = "call"
    /\ pc' = "returned"
    /\ last' = [op |-> op, ch |-> ch, result |-> r]
    /\ UNCHANGED <<buffer, position, size, offset, state>>
    /\ UNCHANGED <<loop, around>>

CallRenderWidth == \E ch \in Chars : Returns("render_width", ch, render_width(ch))
CallConsoleWidth == \E ch \in Chars : Returns("ConsoleWidth", ch, ConsoleWidth(ch))
CallBufferWidth == Returns("buffer_width", "", buffer_width(Text))
CallConsoleWidthStr == Returns("ConsoleWidthStr", "", ConsoleWidthStr(Text))
CallColumnWidth == Returns("column_width", "", column_width(Text))
CallCharIndex == Returns("char_index", "", char_index(Column, Text))
\* char_index(buffer_width(&input), &input), as the test of text.rs calls it
CallCharIndexAtBufferWidth ==
    Returns("char_index at buffer_width", "", char_index(buffer_width(Text), Text))
CallTextNthPositionWidth ==
    Returns("text::nth_position_width", "", text_nth_position_width(Text, Column))
CallNthPositionWidth ==
    Returns("cursor::nth_position_width", "", nth_position_width(Text, Column))
CallRenderBuffer == Returns("render_buffer", "", render_buffer(Text))
CallUpdate == Returns("update", "", update(Text))
\* Buffer::insert_char at the column, on the line or on the line past it
CallInsertChar ==
    \E ch \in KeyChars, y \in 0..Len(buffer) :
        Returns("insert_char", ch, insert_char(buffer, ch, <<Column, y>>))

TextNext ==
    \/ CallRenderWidth
    \/ CallConsoleWidth
    \/ CallBufferWidth
    \/ CallConsoleWidthStr
    \/ CallColumnWidth
    \/ CallCharIndex
    \/ CallCharIndexAtBufferWidth
    \/ CallTextNthPositionWidth
    \/ CallNthPositionWidth
    \/ CallRenderBuffer
    \/ CallUpdate
    \/ CallInsertChar

TextSpec == TextInit /\ [][TextNext]_vars

---------------------------------------------------------------------------
(* Claims about the rendered text and the width utilities *)

\* Row s with every tab replaced by the spaces that pad the text to the next
\* multiple of TAB_STOP, col being the rendered column s starts at.
RECURSIVE PaddedToTabStop(_, _)
PaddedToTabStop(s, col) ==
    IF s = <<>> THEN <<>>
    ELSE IF Head(s) = Tab
         THEN [i \in 1..(TAB_STOP - (col % TAB_STOP)) |-> Space]
              \o PaddedToTabStop(Tail(s), col + TAB_STOP - (col % TAB_STOP))
         ELSE <<Head(s)>>
              \o PaddedToTabStop(Tail(s), col + Max(UnicodeWidthChar(Head(s)), 1))

\* C15: the rendered text of a row replaces every tab by the number of
\* spaces (1 to 8) that pads the rendered line to the next multiple of the
\* tab stop 8, relative to the tab's rendered column: 'a', tab, 'b' renders
\* as 'a', seven spaces, 'b'.
C15_TabsPadToTabStop ==
    last.op \in {"render_buffer", "update"}
        => last.result = PaddedToTabStop(Text, 0)

\* C16: round trip between width and byte offset: for every string s,
\* char_index(buffer_width(s), s) is the byte length of s, with multi-byte,
\* double-width, zero-width and tab characters in s.
C16_RoundTripWidthByteOffset ==
    last.op = "char_index at buffer_width" => last.result = byte_len(Text)

\* The round trip has been computed for a string that holds a zero-width
\* character, a double-width character and a tab.
C16_Witness ==
    /\ last.op = "char_index at buffer_width"
    /\ {"Z", "W", Tab} \subseteq {Text[i] : i \in 1..Len(Text)}
    /\ last.result = 7

\* The column at which the k-th character of s starts for char_index: the
\* rendered widths before it, a zero-width character counting 1.
TextStartColumn(s, k) == buffer_width(SubSeq(s, 1, k - 1))

\* The byte offset of the first character of s whose start column is in
\* the set After, or the byte length of s when there is none.
ByteOffsetOfFirst(s, After(_)) ==
    IF \E k \in 1..Len(s) : After(TextStartColumn(s, k))
    THEN LET k == CHOOSE j \in 1..Len(s) :
                      /\ After(TextStartColumn(s, j))
                      /\ \A h \in 1..(j - 1) : ~After(TextStartColumn(s, h))
         IN  byte_len(SubSeq(s, 1, k - 1))
    ELSE byte_len(s)

\* C17 as stated: char_index returns the byte offset of the first character
\* whose start column is strictly greater than the target column.
C17_FirstStartAfterColumn ==
    last.op = "char_index"
        => LET After(c) == c > Column
           IN  last.result = ByteOffsetOfFirst(Text, After)

\* C17 as amended: char_index returns the byte offset of the first
\* character whose start column is greater than or equal to the target
\* column, the byte length of the string when there is none.
C17_FirstStartAtOrAfterColumn ==
    last.op = "char_index"
        => LET AtOrAfter(c) == c >= Column
           IN  last.result = ByteOffsetOfFirst(Text, AtOrAfter)

\* char_index has been computed for a column inside a string at which a
\* character starts, after a multi-byte character.
C17_Witness ==
    /\ last.op = "char_index"
    /\ Text = <<"W", "a", "Z">>
    /\ Column = 2
    /\ last.result = 3

\* C18: for every string s and every column c with 0 <= c <= columnWidth(s),
\* nth_position_width(s, c) is at least 1, for empty strings and strings
\* with zero-width characters too.
C18_WidthAtColumnAtLeastOne ==
    (/\ last.op \in {"text::nth_position_width", "cursor::nth_position_width"}
     /\ Column <= buffer_width(Text))
        => last.result >= 1

\* C19: every character has a rendered width of at least 1 (1 for a tab,
\* max(display width, 1) otherwise), and the width of every non-empty
\* string is at least 1.
C19_WidthAtLeastOne ==
    /\ last.op \in {"render_width", "ConsoleWidth"}
         => /\ last.result >= 1
            /\ last.result = IF last.ch = Tab THEN 1
                             ELSE Max(UnicodeWidthChar(last.ch), 1)
    /\ (last.op \in {"buffer_width", "ConsoleWidthStr", "column_width"} /\ Text # <<>>)
         => last.result >= 1

---------------------------------------------------------------------------
(* The main loop (main.rs): refresh, read and decode one key, take an      *)
(* event from the channel and apply it.  pc is the statement main is at.   *)

\* channel::bounded(5)
ChannelCapacity == 5

\* The keys of crossterm's event::read that process_key tells apart; Other
\* is any event it maps to no InputEvent.
KeyCodes ==
    {"Ctrl-q", "Left", "Right", "Up", "Down", "PageUp", "PageDown", "Home",
     "End", "Ctrl-s", "Delete", "Backspace", "Other"}
Keys ==
    {[code |-> c, ch |-> ""] : c \in KeyCodes}
        \cup {[code |-> "Char", ch |-> ch] : ch \in KeyChars}

Event(kind, ch) == [kind |-> kind, ch |-> ch]
\* Option::None of the match in process_key
NoEvent == Event("None", "")

\* InputSystem::process_key: the event a key is decoded to
process_key(key) ==
    CASE key.code = "Ctrl-q" -> Event("Quit", "")
      [] key.code = "Left" -> Event("MoveLeft", "")
      [] key.code = "Right" -> Event("MoveRight", "")
      [] key.code = "Up" -> Event("MoveUp", "")
      [] key.code = "Down" -> Event("MoveDown", "")
      [] key.code = "PageUp" -> Event("MoveTop", "")
      [] key.code = "PageDown" -> Event("MoveBottom", "")
      [] key.code = "Home" -> Event("MoveBegin", "")
      [] key.code = "End" -> Event("MoveEnd", "")
      [] key.code = "Ctrl-s" -> Event("SaveBuffer", "")
      [] key.code = "Char" -> Event("InsertChar", key.ch)
      [] key.code \in {"Delete", "Backspace"} -> Event("DeletePreviousChar", "")
      [] OTHER -> NoEvent

\* Sender::try_send on the bounded channel: a full channel refuses the event
try_send(ch, ev) == IF Len(ch) < ChannelCapacity THEN Append(ch, ev) ELSE ch

\* try_recv that hands the event over without taking it out of the channel.
try_recv_leaves_event(ch) ==
    IF ch = <<>> THEN [event |-> NoEvent, channel |-> ch]
    ELSE [event |-> Head(ch), channel |-> ch]

\* Receiver::try_recv: the oldest event and the channel without it, or
\* NoEvent for TryRecvError::Empty
try_recv(ch) ==
    IF ch = <<>> THEN [event |-> NoEvent, channel |-> ch]
    ELSE [event |-> Head(ch), channel |-> Tail(ch)]

\* Editor::process_event for a cursor event or an edit
process_event(ev, buf, sz, off, p, st) ==
    LET moved(q) == [panic |-> FALSE, buffer |-> buf, position |-> q, state |-> st]
    IN  CASE ev.kind = "MoveLeft" -> moved(left(buf, p))
          [] ev.kind = "MoveRight" -> moved(right(buf, p))
          [] ev.kind = "MoveUp" -> moved(up(buf, p))
          [] ev.kind = "MoveDown" -> moved(down(buf, p))
          [] ev.kind = "MoveBegin" -> moved(begin(buf, p))
          [] ev.kind = "MoveEnd" -> moved(end(buf, p))
          [] ev.kind = "MoveTop" -> moved(top(buf, sz, off, p))
          [] ev.kind = "MoveBottom" -> moved(bottom(buf, sz, off, p))
          [] ev.kind = "InsertChar" ->
                LET r == insert_char(buf, ev.ch, p)
                IN  [panic |-> r.panic, buffer |-> r.buffer,
                     position |-> IF r.panic THEN p
                                  ELSE advance_after_insert(r.buffer, p),
                     state |-> r.state]
          [] OTHER -> delete_char(buf, p, st)

\* What the loop did last, and the event it did it to.
Did(op, ev) == [op |-> op, event |-> ev]

\* main before the loop: setup_editor, and Buffer::open when a file is named
\* The rows joined with "\n", as Buffer::save writes them
RECURSIVE join(_)
join(rows) ==
    IF rows = <<>> THEN <<>>
    ELSE IF Len(rows) = 1 THEN rows[1]
    ELSE rows[1] \o <<"\n">> \o join(Tail(rows))

\* str::lines, as Buffer::open splits the content: a line ends at "\n" or
\* at the end of the text, and an empty last line is no line. (No row of
\* the model ends in "\r", which lines() would strip.)
RECURSIVE lines(_)
lines(text) ==
    IF text = <<>> THEN <<>>
    ELSE IF \E i \in 1..Len(text) : text[i] = "\n"
    THEN LET i == CHOOSE j \in 1..Len(text) :
                      text[j] = "\n" /\ \A h \in 1..(j - 1) : text[h] # "\n"
         IN  <<SubSeq(text, 1, i - 1)>> \o lines(SubSeq(text, i + 1, Len(text)))
    ELSE <<text>>

\* main after startup() has put the terminal in raw mode and on the
\* alternate screen
LoopInit ==
    /\ filename = "none"
    /\ buffer = <<>>
    /\ position = <<0, 0>>
    /\ size = <<0, 0>>
    /\ offset = <<0, 0>>
    /\ state = "Default"
    /\ pc = "setup_editor"
    /\ channel = <<>>
    /\ refreshes = 0
    /\ borrow = 0
    /\ terminal = "raw"
    /\ last = Did("Init", NoEvent)

\* setup_editor(): the editor for the size of the terminal
LoopSetupEditor ==
    /\ pc = "setup_editor"
    /\ size' \in Extents \X Extents
    /\ pc' = "open"
    /\ UNCHANGED <<buffer, position, offset, state, last>>
    /\ UNCHANGED <<loop, around>>

\* terminal::size() fails: `?` returns the error from main
LoopSetupEditorFails ==
    /\ pc = "setup_editor"
    /\ pc' = "failed"
    /\ UNCHANGED <<buffer, position, size, offset, state, last>>
    /\ UNCHANGED <<loop, around>>

\* Buffer::open(&args[1]) and set_buffer: the lines of the file, whatever
\* it holds; or no file argument
LoopOpens ==
    /\ pc = "open"
    /\ filename' \in {"file", "none"}
    /\ buffer' \in IF filename' = "file" THEN Files ELSE {<<>>}
    /\ pc' = "refresh"
    /\ UNCHANGED <<position, size, offset, state, last, channel, refreshes>>
    /\ UNCHANGED around

\* Buffer::open fails: `?` returns the error from main
LoopOpenFails ==
    /\ pc = "open"
    /\ pc' = "failed"
    /\ UNCHANGED <<buffer, position, size, offset, state, last>>
    /\ UNCHANGED <<loop, around>>

\* editor.refresh(&mut io::stdout()) succeeds
LoopRefresh ==
    /\ pc = "refresh"
    /\ offset' = refresh(buffer, size, offset, position)
    /\ refreshes' = refreshes + 1
    /\ pc' = "process_key"
    /\ UNCHANGED <<buffer, position, size, state, last, channel, filename>>
    /\ UNCHANGED around

\* editor.refresh fails to write: cleanup(), return Err
LoopRefreshFails ==
    /\ pc = "refresh"
    /\ terminal' = "restored"
    /\ pc' = "failed"
    /\ UNCHANGED <<buffer, position, size, offset, state, last, borrow>>
    /\ UNCHANGED loop

\* input.process_key(): one key is read, decoded and sent
LoopProcessKey ==
    \E key \in Keys :
        /\ pc = "process_key"
        /\ key.code = "Char"
              => IF HasLine(buffer, Y(position))
                 THEN Len(LineAt(buffer, Y(position))) < MaxLen
                 ELSE Len(buffer) < MaxLines
        /\ channel' = IF process_key(key) = NoEvent THEN channel
                      ELSE try_send(channel, process_key(key))
        /\ refreshes' = 0
        /\ last' = Did("read", process_key(key))
        /\ pc' = "try_recv"
        /\ UNCHANGED <<buffer, position, size, offset, state, filename>>
        /\ UNCHANGED around

\* event::read fails: InputError::ReadFailure, return Err
LoopReadFails ==
    /\ pc = "process_key"
    /\ pc' = "failed"
    /\ UNCHANGED <<buffer, position, size, offset, state, last>>
    /\ UNCHANGED <<loop, around>>

\* rx.try_recv() finds the channel empty
LoopReceivesNothing ==
    /\ pc = "try_recv"
    /\ try_recv(channel).event = NoEvent
    /\ pc' = "refresh"
    /\ last' = Did("applied", NoEvent)
    /\ UNCHANGED <<buffer, position, size, offset, state>>
    /\ UNCHANGED <<loop, around>>

\* Ok(InputEvent::Quit) => break, then cleanup() and return Ok
LoopQuits ==
    /\ pc = "try_recv"
    /\ try_recv(channel).event.kind = "Quit"
    /\ channel' = try_recv(channel).channel
    /\ terminal' = "restored"
    /\ pc' = "exit"
    /\ last' = Did("quit", try_recv(channel).event)
    /\ UNCHANGED <<buffer, position, size, offset, state, refreshes, filename,
                   borrow>>

\* Ok(event) => editor.process_event(event), for a cursor event or an edit
LoopApplies ==
    /\ pc = "try_recv"
    /\ try_recv(channel).event.kind \notin {"None", "Quit", "SaveBuffer"}
    /\ channel' = try_recv(channel).channel
    /\ LET r == process_event(try_recv(channel).event, buffer, size, offset,
                              position, state)
       IN  IF r.panic
           THEN /\ pc' = "panicked"
                /\ UNCHANGED <<buffer, position, state>>
           ELSE /\ buffer' = r.buffer
                /\ position' = r.position
                /\ state' = r.state
                /\ pc' = "refresh"
    /\ last' = Did("applied", try_recv(channel).event)
    /\ UNCHANGED <<size, offset, refreshes, filename>>
    /\ UNCHANGED around

\* Ok(SaveBuffer): Buffer::save writes the file
LoopSaves ==
    /\ pc = "try_recv"
    /\ try_recv(channel).event.kind = "SaveBuffer"
    /\ filename = "file"
    /\ channel' = try_recv(channel).channel
    /\ state' = "Default"
    /\ pc' = "refresh"
    /\ last' = [op |-> "saved", event |-> try_recv(channel).event,
                contents |-> join(buffer)]
    /\ UNCHANGED <<buffer, position, size, offset, refreshes, filename>>
    /\ UNCHANGED around

\* Ok(SaveBuffer): Buffer::save fails (no file name, or the write fails);
\* the error is either shown and the loop goes on, or returned to main,
\* which calls cleanup() and returns it.
LoopSaveFails ==
    /\ pc = "try_recv"
    /\ try_recv(channel).event.kind = "SaveBuffer"
    /\ channel' = try_recv(channel).channel
    /\ \/ /\ pc' = "refresh"
          /\ UNCHANGED terminal
       \/ /\ pc' = "failed"
          /\ terminal' = "restored"
    /\ last' = Did("save failed", try_recv(channel).event)
    /\ UNCHANGED <<buffer, position, size, offset, state, refreshes, filename,
                   borrow>>

LoopNext ==
    \/ LoopSetupEditor
    \/ LoopSetupEditorFails
    \/ LoopOpens
    \/ LoopOpenFails
    \/ LoopRefresh
    \/ LoopRefreshFails
    \/ LoopProcessKey
    \/ LoopReadFails
    \/ LoopReceivesNothing
    \/ LoopQuits
    \/ LoopApplies
    \/ LoopSaves
    \/ LoopSaveFails

LoopSpec == LoopInit /\ [][LoopNext]_vars

---------------------------------------------------------------------------
(* Claims about the main loop *)

\* C20: in the main loop every decoded input event is completely applied to
\* the editor (or ends the loop, for Quit) before the next input is read,
\* and exactly one screen refresh is performed between any two consecutive
\* input reads.
C20_OneEventOneRefreshPerRead ==
    /\ pc = "try_recv"
         => channel = IF last.event = NoEvent THEN <<>> ELSE <<last.event>>
    /\ pc = "process_key"
         => /\ channel = <<>>
            /\ last.op \in {"Init", "applied", "saved", "save failed"}
            /\ refreshes = 1
    /\ pc = "exit" => (channel = <<>> /\ last.event.kind = "Quit")

\* The loop is about to read a key after it has applied an insertion and
\* refreshed the screen.
C20_Witness ==
    /\ pc = "process_key"
    /\ last = Did("applied", Event("InsertChar", "W"))
    /\ state = "Modified"
    /\ refreshes = 1
    /\ channel = <<>>

---------------------------------------------------------------------------
(* Claims about the shared line storage                                    *)

\* C21: no movement or edit asks for a borrow of the rows while an exclusive
\* borrow of them is held: after every operation no request has been
\* refused and every guard has been dropped.
C21_NoReentrantBorrow ==
    /\ pc # "already borrowed"
    /\ borrow = 0

\* A delete_char that removed a character and then moved the cursor left
C21_Witness ==
    /\ last.op = "Delete"
    /\ pc = "input"
    /\ last.buffer # buffer
    /\ position # last.position
    /\ move_cursor(last.buffer, last.position) > 0

---------------------------------------------------------------------------
(* lib.rs: the construction of the editor and the drawing of the rows, on  *)
(* screens of any size, the empty ones included.                           *)

\* Editor::new(cols, rows): Screen::new(cols, rows - 1). The subtraction
\* overflows for rows = 0: a panic where overflow is checked, 65535 rows
\* where it is not.
Editor_new(cols, rows) ==
    [overflows |-> rows < 1, size |-> <<cols, wrapping_sub(rows, 1)>>]

\* concat!("Kilo editor -- version ", version!()): the literal, and the
\* package version the build appends to it.
Banner ==
    <<"K", "i", "l", "o", " ", "e", "d", "i", "t", "o", "r", " ", "-", "-", " ",
      "v", "e", "r", "s", "i", "o", "n", " ">>
CARGO_PKG_VERSION == <<"0", ".", "1", ".", "0">>

\* Editor::message: the welcome message cut to the width of the screen
message(sz) ==
    IF Len(Banner \o CARGO_PKG_VERSION) > Cols(sz)
    THEN SubSeq(Banner \o CARGO_PKG_VERSION, 1, Cols(sz))
    ELSE Banner \o CARGO_PKG_VERSION

\* Editor::padding and Display for Padding: '~' left-aligned in pad_size
\* columns, nothing for a pad_size of 0
padding(sz, message_len) ==
    LET pad_size == wrapping_sub(Cols(sz), message_len) \div 2
    IN  IF pad_size > 0 THEN <<"~">> \o [i \in 1..(pad_size - 1) |-> Space] ELSE <<>>

\* &render[from..to]: a panic unless both ends are character boundaries
str_slice_panics(s, from, to) ==
    ~(is_char_boundary(s, from) /\ is_char_boundary(s, to))
str_slice(s, from, to) == SubSeq(s, chars_before(s, from) + 1, chars_before(s, to))

\* One turn of the loop of draw_rows, for screen row i
draw_row(buf, sz, off, i) ==
    LET file_row == wrapping_add(i, RowOffset(off))
        \* Clear(ClearType::UntilNewLine), then "\r\n"
        line_end == <<"ESC[K", "CRLF">>
    IN  IF file_row >= Len(buf) % U16
        THEN [panic |-> FALSE,
              text |-> (IF buf = <<>> /\ i = Rows(sz) \div 3
                        THEN padding(sz, Len(message(sz))) \o message(sz)
                        ELSE <<"~">>) \o line_end]
        ELSE LET rendered == update(buf[file_row + 1])
                 len == Min(saturating_sub(byte_len(rendered), ColOffset(off)),
                            Cols(sz))
             IN  IF byte_len(rendered) >= ColOffset(off)
                 THEN IF str_slice_panics(rendered, ColOffset(off), ColOffset(off) + len)
                      THEN [panic |-> TRUE, text |-> <<>>]
                      ELSE [panic |-> FALSE,
                            text |-> str_slice(rendered, ColOffset(off),
                                               ColOffset(off) + len) \o line_end]
                 ELSE [panic |-> FALSE, text |-> line_end]

\* Editor::draw_rows: the rows written, one entry for each, up to the first
\* that panics
draw_rows(buf, sz, off) ==
    LET bad == {i \in 0..(Rows(sz) - 1) : draw_row(buf, sz, off, i).panic}
        n == IF bad = {} THEN Rows(sz)
             ELSE CHOOSE i \in bad : \A j \in bad : i <= j
    IN  [panic |-> bad # {},
         output |-> [i \in 1..n |-> draw_row(buf, sz, off, i - 1).text]]

\* The cursor movements by name
CursorOps == {"Left", "Right", "Up", "Down", "Begin", "End", "Top", "Bottom"}
moved_to(op, buf, sz, off, p) ==
    CASE op = "Left" -> left(buf, p)
      [] op = "Right" -> right(buf, p)
      [] op = "Up" -> up(buf, p)
      [] op = "Down" -> down(buf, p)
      [] op = "Begin" -> begin(buf, p)
      [] op = "End" -> end(buf, p)
      [] op = "Top" -> top(buf, sz, off, p)
      [] op = "Bottom" -> bottom(buf, sz, off, p)

\* Whether the u16 arithmetic of a movement and of the refresh after it
\* overflows.
moved_overflows(op, buf, sz, off, p) ==
    \/ op = "Bottom" /\ bottom_overflows(sz, off)
    \/ refresh_overflows(buf, sz, off, moved_to(op, buf, sz, off, p))

ScreenInit ==
    /\ buffer = <<>>
    /\ position = <<0, 0>>
    /\ size = <<0, 0>>
    /\ offset = <<0, 0>>
    /\ state = "Default"
    /\ pc = "new"
    /\ last = [op |-> "Init"]
    /\ channel = <<>>
    /\ refreshes = 0
    /\ borrow = 0
    /\ terminal = "raw"
    /\ filename = "none"

\* Editor::new(cols, rows)
EditorNew ==
    \E cols \in 0..MaxExtent, rows \in 0..(MaxExtent + 1) :
        /\ pc = "new"
        /\ \/ /\ Editor_new(cols, rows).overflows
              /\ pc' = "panicked"
              /\ UNCHANGED size
           \/ /\ size' = Editor_new(cols, rows).size
              /\ pc' = "constructed"
        /\ last' = [op |-> "Editor::new", cols |-> cols, rows |-> rows]
        /\ UNCHANGED <<buffer, position, offset, state>>
        /\ UNCHANGED <<loop, around>>

\* Editor::open (or none: the editor stays empty), then the first refresh.
\* An overflow in it ends the run: with a panic where overflow is checked,
\* with the wrapped values where it is not.
EditorOpen ==
    \E rows \in Files :
        /\ pc = "constructed"
        /\ rows # <<>> => Rows(size) <= MaxExtent
        /\ buffer' = rows
        /\ IF refresh_overflows(rows, size, offset, position)
           THEN \/ /\ pc' = "panicked"
                   /\ UNCHANGED offset
                \/ /\ pc' = "wrapped"
                   /\ offset' = refresh(rows, size, offset, position)
           ELSE /\ offset' = refresh(rows, size, offset, position)
                /\ pc' = "input"
        /\ last' = [op |-> "open",
                    overflowed |-> refresh_overflows(rows, size, offset, position)]
        /\ UNCHANGED <<position, size, state>>
        /\ UNCHANGED <<loop, around>>

\* A cursor movement and the refresh after it, on a screen of any size
ScreenMoved ==
    \E op \in CursorOps :
        /\ pc = "input"
        /\ IF moved_overflows(op, buffer, size, offset, position)
           THEN \/ /\ pc' = "panicked"
                   /\ UNCHANGED <<position, offset>>
                \/ /\ pc' = "wrapped"
                   /\ position' = moved_to(op, buffer, size, offset, position)
                   /\ offset' = refresh(buffer, size, offset, position')
           ELSE /\ position' = moved_to(op, buffer, size, offset, position)
                /\ offset' = refresh(buffer, size, offset, position')
                /\ pc' = pc
        /\ last' = [op |-> op,
                    overflowed |-> moved_overflows(op, buffer, size, offset, position)]
        /\ UNCHANGED <<buffer, size, state>>
        /\ UNCHANGED <<loop, around>>

\* Editor::draw_rows(writer)
DrawRows ==
    /\ pc \in {"constructed", "input", "wrapped"}
    /\ LET drawn == draw_rows(buffer, size, offset)
       IN  /\ last' = [op |-> "draw_rows", panic |-> drawn.panic,
                       output |-> drawn.output]
           /\ pc' = IF drawn.panic THEN "panicked" ELSE pc
    /\ UNCHANGED <<buffer, position, size, offset, state>>
    /\ UNCHANGED <<loop, around>>

ScreenNext ==
    \/ EditorNew
    \/ EditorOpen
    \/ ScreenMoved
    \/ DrawRows

ScreenSpec == ScreenInit /\ [][ScreenNext]_vars

\* C22: an editor made by Editor::new(0, 0) is constructed, and its
\* draw_rows completes and writes nothing.
C22_ZeroSizeDrawsNothing ==
    /\ (last.op = "Editor::new" /\ last.cols = 0 /\ last.rows = 0)
          => pc # "panicked"
    /\ (last.op = "draw_rows" /\ buffer = <<>> /\ size = Editor_new(0, 0).size)
          => (~last.panic /\ last.output = <<>>)

\* Where overflow is checked, Editor::new(0, 0) panics in rows - 1
C22_PanicsWhereChecked ==
    ~(last.op = "Editor::new" /\ last.cols = 0 /\ last.rows = 0 /\ pc = "panicked")

\* Where it is not, draw_rows of that editor writes a line for each of
\* 65535 rows
C22_DrawsWhereUnchecked ==
    ~(/\ last.op = "draw_rows"
      /\ buffer = <<>>
      /\ size = Editor_new(0, 0).size
      /\ Len(last.output) = U16Max)

---------------------------------------------------------------------------
(* Claims about the number of lines                                        *)

\* C23: the number of lines changes only by insert_char on the line past
\* the last one, which appends one line holding just the inserted
\* character; an insert on an existing line, delete_char and every cursor
\* movement (with the scroll after it) leave the number of lines as it
\* was, so it never decreases.
C23_LineCountChangesOnlyByInsertPastEnd ==
    /\ (last.op = "Insert" /\ pc = "input" /\ Y(last.position) = Len(last.buffer))
          => /\ Len(buffer) = Len(last.buffer) + 1
             /\ SubSeq(buffer, 1, Len(last.buffer)) = last.buffer
             /\ buffer[Len(buffer)] = <<last.ch>>
    /\ ~(last.op = "Insert" /\ pc = "input" /\ Y(last.position) = Len(last.buffer))
          => Len(buffer) = Len(last.buffer)
    /\ Len(buffer) >= Len(last.buffer)

\* An insert on the line past the last one of a buffer that has lines
C23_Witness ==
    /\ last.op = "Insert"
    /\ pc = "input"
    /\ last.buffer # <<>>
    /\ Y(last.position) = Len(last.buffer)
    /\ Len(buffer) = Len(last.buffer) + 1

---------------------------------------------------------------------------
(* Claims about the byte offset of an insert                               *)

\* C24: for every row text and every column, past the width of the line
\* too, char_index gives a character boundary between 0 and the length of
\* the text in bytes, and that length itself when the column is at or past
\* the width of the line (every character counted as at least one column);
\* so insert_char, on a line or on the line past the last, never panics.
C24_InsertOffsetIsBoundary ==
    /\ (pc = "returned" /\ last.op = "char_index")
          => /\ last.result \in 0..byte_len(Text)
             /\ is_char_boundary(Text, last.result)
             /\ Column >= buffer_width(Text) => last.result = byte_len(Text)
    /\ (pc = "returned" /\ last.op = "insert_char")
          => /\ ~last.result.panic
             /\ last.result.state = "Modified"

\* char_index past the width of a text with a glyph of several bytes
C24_Witness ==
    /\ pc = "returned"
    /\ last.op = "char_index"
    /\ Column > buffer_width(Text)
    /\ byte_len(Text) > Len(Text)
    /\ last.result = byte_len(Text)

---------------------------------------------------------------------------
(* Claims about the rendered cursor                                        *)

\* The display width of rendered text: a space takes one column, any other
\* character its unicode width.
RECURSIVE DisplayWidth(_)
DisplayWidth(s) ==
    IF s = <<>> THEN 0
    ELSE (IF Head(s) = Space THEN 1
          ELSE IF UnicodeWidthChar(Head(s)) = NoWidth THEN 0
          ELSE UnicodeWidthChar(Head(s)))
         + DisplayWidth(Tail(s))

\* The characters of line s that precede cursor column c: those before the
\* byte offset an insert at c would use.
Preceding(s, c) == SubSeq(s, 1, chars_before(s, char_index(c, s)))

\* C25: on every line, at every reachable cursor column, the column of the
\* rendered cursor is the display width of the rendered text of the
\* characters before the cursor.
C25_RenderedCursorAtRenderedWidth ==
    HasLine(buffer, Y(position))
       => X(render(buffer, position))
             = DisplayWidth(render_buffer(Preceding(LineAt(buffer, Y(position)),
                                                    X(position))))

---------------------------------------------------------------------------
(* Claims about Left and Right as a pair                                   *)

\* C26: Left and Right are inverse steps: a Left that follows a Right which
\* changed the position restores the position before that Right, and a
\* Right that follows a Left which changed the position restores the
\* position before that Left.
C26_LeftRightInverse ==
    [][/\ (last.op = "Right" /\ last.position # position /\ last'.op = "Left")
             => position' = last.position
       /\ (last.op = "Left" /\ last.position # position /\ last'.op = "Right")
             => position' = last.position]_vars

---------------------------------------------------------------------------
(* Claims about saving, the buffer state and the end of main               *)

\* C27: what save writes, the rows joined with line separators, splits
\* into the same rows again when open reads it back: the same number of
\* rows with the same text, for buffers with empty rows too.
C27_SaveOpenRoundTrip ==
    last.op = "saved" => lines(last.contents) = buffer

\* A step of the loop that takes event kind out of the channel
Takes(kind) == pc = "try_recv" /\ try_recv(channel).event.kind = kind

\* C28: the buffer starts Default, an insert_char or a delete_char that
\* removes a character makes it Modified, a successful save makes it
\* Default, and nothing else changes it: not a delete_char that removes
\* nothing, not a failed save, not a movement or a refresh. So it is
\* Modified exactly when an edit happened since the buffer was opened or
\* last saved.
C28_ModifiedIffEditedSinceSave ==
    /\ state = "Default"
    /\ [][IF Takes("InsertChar") /\ pc' # "panicked"
          THEN state' = "Modified"
          ELSE IF Takes("DeletePreviousChar") /\ buffer' # buffer
          THEN state' = "Modified"
          ELSE IF Takes("SaveBuffer") /\ last'.op = "saved"
          THEN state' = "Default"
          ELSE state' = state]_vars

\* An edited buffer whose save failed in writing the file: it is still
\* Modified when the loop goes on
C28_Witness ==
    /\ last.op = "save failed"
    /\ pc = "refresh"
    /\ filename = "file"
    /\ buffer # <<>>
    /\ state = "Modified"

\* C29: whenever main has returned after startup(), cleanup() has been
\* called: the terminal is out of raw mode and off the alternate screen.
C29_CleanupBeforeEveryReturn ==
    pc \in {"exit", "failed"} => terminal = "restored"

---------------------------------------------------------------------------
(* Claims about the u16 arithmetic of the screen                           *)

\* C30: on a screen of any size, one of no rows or no columns included, and
\* at every reachable cursor position and offset, the u16 arithmetic of
\* Screen::scroll, of top and bottom, and of the cursor's screen position in
\* refresh (cursor minus offset) neither overflows nor underflows.
C30_ScreenArithmeticInRange ==
    last.op \in CursorOps \cup {"open"} => ~last.overflowed

===========================================================================
